---- MODULE Spec2Model ----
(***************************************************************************)
(* Crossing detection and interval logging of the footfall counter:        *)
(* PersonTracker (backend/counter.py), the frame loop of process_video     *)
(* (backend/counter.py), CSVLogger (backend/csv_logger.py) and the job     *)
(* records kept by the API server (backend/server.py).                     *)
(***************************************************************************)
EXTENDS Integers, Sequences, FiniteSets, TLC

VARIABLES
    position,            \* PositionConfig handed to process_frame
    track_history,       \* PersonTracker.track_history: id -> sequence of centre points
    crossing_records,    \* PersonTracker.crossing_records: id -> record
    disappeared_tracks,  \* PersonTracker.disappeared_tracks: id -> int
    counts,              \* PersonTracker.counts
    frame_count,         \* frame_count of process_video / last argument of log_counts
    csv_logger,          \* CSVLogger fields fps, interval_seconds, last_interval, interval_start_counts
    csv_file,            \* rows of the CSV file, header first
    error,               \* exception that ended the job, "none" while it runs
    last_det,            \* history variable: detections of the latest processed frame
    life,                \* history variable: per id, observations/credits/gap/evictions
    emitted,             \* history variable: one entry per emitted record
    span,                \* history variable: crossings accepted per emission span
    log_call,            \* latest log_counts call: its force argument and its return value
    job,                 \* process_video: "running" in the frame loop, "returned" after it
    jobs,                \* server.py: rows of the jobs table, job_id -> status, error_message, completed_at
    tasks,               \* server.py: background tasks, job_id -> position in process_video_task and subprocess result
    script               \* environment: the tracker's remaining scripted frames

vars == <<position, track_history, crossing_records, disappeared_tracks, counts,
          frame_count, csv_logger, csv_file, error, last_det, life, emitted, span, log_call, job,
          jobs, tasks, script>>

(***************************************************************************)
(* Program constants                                                       *)
(***************************************************************************)
min_track_length == 3
max_disappeared == 90
min_required_default == 1
LastIntervalInit == 0

(***************************************************************************)
(* Bounds of the explored inputs                                           *)
(***************************************************************************)
MaxFrames == 4          \* frames of a job in Spec / SpecConfig
MaxScenarioFrames == 5  \* frames of a job in SpecScenario
MaxPrefix == 3          \* free frames before the long run in SpecLong
MaxSuffix == 3          \* free frames after the long run in SpecLong
MaxCalls == 3           \* log_counts calls in SpecLogger
MaxLogFrame == 4        \* largest frame index passed to log_counts in SpecLogger
MaxTickIntervals == 1   \* whole intervals after the first in SpecTicks
MaxJobFrames == 7       \* frames of a job in SpecJob
MaxJobs == 3            \* jobs started through the API in SpecServer

Boundary == 200
TrackIds == {1, 2}
LongIds == {1}
LogCountValues == {0, 1}

\* boxes (x1, y1, x2, y2) whose centres lie before, on and after the boundary
\* on both axes
Boxes == { <<189, 191, 209, 212>>, <<190, 190, 210, 211>>, <<192, 189, 211, 210>> }
\* boxes whose centre has y = 250, 240, 230, 190, 180
ScenarioBoxes == { <<90, 240, 110, 260>>, <<90, 230, 110, 250>>, <<90, 220, 110, 240>>,
                   <<90, 180, 110, 200>>, <<90, 170, 110, 190>> }

Orientations == {"horizontal", "vertical"}
Directions == {"up", "down", "left", "right"}

(***************************************************************************)
(* Helpers for Python dictionaries                                         *)
(***************************************************************************)
Put(f, k, v) == [x \in (DOMAIN f) \cup {k} |-> IF x = k THEN v ELSE f[x]]

Del(f, k) == [x \in (DOMAIN f) \ {k} |-> f[x]]

MinOf(S) == CHOOSE m \in S : \A n \in S : m <= n

EmptyMap == [x \in {} |-> 0]

\* every set of detections of one frame: a subset of ids, one box each
Detections(ids, boxes) == UNION { [s -> boxes] : s \in SUBSET ids }

(***************************************************************************)
(* PositionConfig                                                          *)
(***************************************************************************)
\* every value the pydantic model accepts: the two fields are independent
PositionConfigs ==
    [line_orientation : Orientations, door_direction : Directions, boundary_cords : {Boundary}]

\* the configurations process_video builds from door_dir
VideoPosition(door_dir) ==
    IF door_dir \in {"up", "down"}
    THEN [line_orientation |-> "horizontal", door_direction |-> door_dir, boundary_cords |-> Boundary]
    ELSE [line_orientation |-> "vertical", door_direction |-> door_dir, boundary_cords |-> Boundary]

(***************************************************************************)
(* PersonTracker.process_frame, per detection                              *)
(***************************************************************************)
Center(box) == << (box[1] + box[3]) \div 2, (box[2] + box[4]) \div 2 >>

\* CurrentPosition with the boundary point moved to the outside for door
\* direction down (<= for <)
CurrentPosition_OnLineOutside(pos, pt) ==
    IF pos.line_orientation = "horizontal"
    THEN IF pos.door_direction = "down"
         THEN (IF pt[2] <= pos.boundary_cords THEN "outside" ELSE "inside")
         ELSE IF pos.door_direction = "up"
         THEN (IF pt[2] > pos.boundary_cords THEN "outside" ELSE "inside")
         ELSE "unbound"
    ELSE IF pos.line_orientation = "vertical"
    THEN IF pos.door_direction = "right"
         THEN (IF pt[1] < pos.boundary_cords THEN "outside" ELSE "inside")
         ELSE IF pos.door_direction = "left"
         THEN (IF pt[1] > pos.boundary_cords THEN "outside" ELSE "inside")
         ELSE "unbound"
    ELSE "unbound"

\* CurrentPosition with the two sides of door direction down exchanged
CurrentPosition_DownFlipped(pos, pt) ==
    IF pos.line_orientation = "horizontal"
    THEN IF pos.door_direction = "down"
         THEN (IF pt[2] > pos.boundary_cords THEN "outside" ELSE "inside")
         ELSE IF pos.door_direction = "up"
         THEN (IF pt[2] > pos.boundary_cords THEN "outside" ELSE "inside")
         ELSE "unbound"
    ELSE IF pos.line_orientation = "vertical"
    THEN IF pos.door_direction = "right"
         THEN (IF pt[1] < pos.boundary_cords THEN "outside" ELSE "inside")
         ELSE IF pos.door_direction = "left"
         THEN (IF pt[1] > pos.boundary_cords THEN "outside" ELSE "inside")
         ELSE "unbound"
    ELSE "unbound"

\* lines 125-134; "unbound" when no branch assigns current_position
CurrentPosition(pos, pt) ==
    IF pos.line_orientation = "horizontal"
    THEN IF pos.door_direction = "down"
         THEN (IF pt[2] < pos.boundary_cords THEN "outside" ELSE "inside")
         ELSE IF pos.door_direction = "up"
         THEN (IF pt[2] > pos.boundary_cords THEN "outside" ELSE "inside")
         ELSE "unbound"
    ELSE IF pos.line_orientation = "vertical"
    THEN IF pos.door_direction = "right"
         THEN (IF pt[1] < pos.boundary_cords THEN "outside" ELSE "inside")
         ELSE IF pos.door_direction = "left"
         THEN (IF pt[1] > pos.boundary_cords THEN "outside" ELSE "inside")
         ELSE "unbound"
    ELSE "unbound"

\* sum(1 for x, y in track if <coordinate k> > b) and ... < b
CountGreater(track, k, b) == Cardinality({i \in 1..Len(track) : track[i][k] > b})

CountLess(track, k, b) == Cardinality({i \in 1..Len(track) : track[i][k] < b})

\* positions_outside with the classifier's rule for door direction down
PositionsOutside_DownAsClassifier(track, pos) ==
    IF pos.line_orientation = "horizontal"
    THEN IF pos.door_direction = "down"
         THEN CountLess(track, 2, pos.boundary_cords)
         ELSE IF pos.door_direction = "up"
         THEN CountGreater(track, 2, pos.boundary_cords)
         ELSE -1
    ELSE IF pos.line_orientation = "vertical"
    THEN IF pos.door_direction = "right"
         THEN CountLess(track, 1, pos.boundary_cords)
         ELSE IF pos.door_direction = "left"
         THEN CountGreater(track, 1, pos.boundary_cords)
         ELSE -1
    ELSE -1

\* lines 172-181; -1 stands for the unbound positions_outside
PositionsOutside(track, pos) ==
    IF pos.line_orientation = "horizontal"
    THEN IF pos.door_direction = "down"
         THEN CountGreater(track, 2, pos.boundary_cords)
         ELSE IF pos.door_direction = "up"
         THEN CountGreater(track, 2, pos.boundary_cords)
         ELSE -1
    ELSE IF pos.line_orientation = "vertical"
    THEN IF pos.door_direction = "right"
         THEN CountLess(track, 1, pos.boundary_cords)
         ELSE IF pos.door_direction = "left"
         THEN CountGreater(track, 1, pos.boundary_cords)
         ELSE -1
    ELSE -1

\* _verify_crossing with > for >= in the final comparison
VerifyCrossing_Strict(track, pos, min_required) ==
    IF Len(track) < min_track_length
    THEN FALSE
    ELSE LET positions_outside == PositionsOutside(track, pos)
             positions_inside == Len(track) - positions_outside
         IN  positions_outside > min_required /\ positions_inside > min_required

\* lines 166-184
VerifyCrossing(track, pos, min_required) ==
    IF Len(track) < min_track_length
    THEN FALSE
    ELSE LET positions_outside == PositionsOutside(track, pos)
             positions_inside == Len(track) - positions_outside
         IN  positions_outside >= min_required /\ positions_inside >= min_required

NewRecord == [first_position |-> "None", last_position |-> "None", counted |-> FALSE]

NewLife == [n |-> 0, credited |-> 0, gap |-> -1, evictions |-> 0, first |-> << >>, seen |-> << >>]

\* lines 119-122 with >= for > in the length test
AppendPoint_AtThreshold(track, pt) ==
    LET app == Append(track, pt)
    IN  IF Len(app) >= max_disappeared THEN Tail(app) ELSE app

\* lines 119-122
AppendPoint(track, pt) ==
    LET app == Append(track, pt)
    IN  IF Len(app) > max_disappeared THEN Tail(app) ELSE app

\* CrossingGuard without the test of the counted flag
CrossingGuard_IgnoresCounted(rec, current_position, track) ==
    /\ rec.first_position # current_position
    /\ Len(track) >= min_track_length

\* CrossingGuard without the comparison with first_position
CrossingGuard_IgnoresSide(rec, current_position, track) ==
    /\ rec.counted = FALSE
    /\ Len(track) >= min_track_length

\* lines 142-144
CrossingGuard(rec, current_position, track) ==
    /\ rec.counted = FALSE
    /\ rec.first_position # current_position
    /\ Len(track) >= min_track_length

\* UpdateCounts whose outgoing branch leaves total alone
UpdateCounts_OutgoingKeepsTotal(c, first_position, current_position) ==
    IF first_position = "outside" /\ current_position = "inside"
    THEN [c EXCEPT !.incoming = @ + 1, !.total = @ + 1]
    ELSE IF first_position = "inside" /\ current_position = "outside"
    THEN [c EXCEPT !.outgoing = @ + 1]
    ELSE c

\* UpdateCounts whose outgoing branch never takes total below zero
UpdateCounts_ClampedAtZero(c, first_position, current_position) ==
    IF first_position = "outside" /\ current_position = "inside"
    THEN [c EXCEPT !.incoming = @ + 1, !.total = @ + 1]
    ELSE IF first_position = "inside" /\ current_position = "outside"
    THEN [c EXCEPT !.outgoing = @ + 1, !.total = IF @ > 0 THEN @ - 1 ELSE 0]
    ELSE c

\* lines 147-152
UpdateCounts(c, first_position, current_position) ==
    IF first_position = "outside" /\ current_position = "inside"
    THEN [c EXCEPT !.incoming = @ + 1, !.total = @ + 1]
    ELSE IF first_position = "inside" /\ current_position = "outside"
    THEN [c EXCEPT !.outgoing = @ + 1, !.total = @ - 1]
    ELSE c

\* lines 136-137 with an unconditional assignment
FirstPosition_Overwritten(rec, current_position) == current_position

\* lines 136-137: first_position after the test for a missing or None entry
FirstPosition(rec, current_position) ==
    IF rec.first_position = "None" THEN current_position ELSE rec.first_position

\* body of the loop of lines 112-153 for one (box, track_id); st carries the
\* tracker's maps, the counters, the raised exception and the history variable
ProcessBox(st, pos, track_id, box) ==
    IF st.error # "none" THEN st
    ELSE
    LET pt == Center(box)
        old == IF track_id \in DOMAIN st.th THEN st.th[track_id] ELSE << >>
        track == AppendPoint(old, pt)
        th1 == Put(st.th, track_id, track)
        current_position == CurrentPosition(pos, pt)
        lf0 == [st.life[track_id] EXCEPT !.n = @ + 1, !.gap = 0,
                                         !.first = IF st.life[track_id].n = 0 THEN pt ELSE @,
                                         !.seen = Append(@, pt)]
    IN  IF current_position = "unbound"
        THEN [st EXCEPT !.th = th1, !.error = "UnboundLocalError"]
        ELSE
        LET rec0 == IF track_id \in DOMAIN st.cr THEN st.cr[track_id] ELSE NewRecord
            rec1 == [rec0 EXCEPT !.first_position = FirstPosition(rec0, current_position)]
            rec2 == [rec1 EXCEPT !.last_position = current_position]
            accept == /\ CrossingGuard(rec2, current_position, track)
                      /\ VerifyCrossing(track, pos, min_required_default)
            counts1 == IF accept
                       THEN UpdateCounts(st.counts, rec2.first_position, current_position)
                       ELSE st.counts
            rec3 == IF accept THEN [rec2 EXCEPT !.counted = TRUE] ELSE rec2
            lf1 == IF counts1 # st.counts THEN [lf0 EXCEPT !.credited = @ + 1] ELSE lf0
        IN  [st EXCEPT !.th = th1,
                       !.cr = Put(st.cr, track_id, rec3),
                       !.counts = counts1,
                       !.life = [@ EXCEPT ![track_id] = lf1]]

RECURSIVE ProcessBoxes(_, _, _, _)
ProcessBoxes(st, pos, det, ids) ==
    IF ids = {} THEN st
    ELSE LET track_id == MinOf(ids)
         IN  ProcessBoxes(ProcessBox(st, pos, track_id, det[track_id]), pos, det, ids \ {track_id})

(***************************************************************************)
(* PersonTracker.reset_track and update_disappeared_tracks                 *)
(***************************************************************************)
\* reset_track that forgets the crossing record
ResetTrack_KeepsRecord(st, track_id) ==
    [st EXCEPT !.th = IF track_id \in DOMAIN @ THEN Del(@, track_id) ELSE @,
               !.dt = IF track_id \in DOMAIN @ THEN Del(@, track_id) ELSE @]

\* reset_track that also clears the counters
ResetTrack_ClearsCounts(st, track_id) ==
    [st EXCEPT !.th = IF track_id \in DOMAIN @ THEN Del(@, track_id) ELSE @,
               !.cr = IF track_id \in DOMAIN @ THEN Del(@, track_id) ELSE @,
               !.dt = IF track_id \in DOMAIN @ THEN Del(@, track_id) ELSE @,
               !.counts = [total |-> 0, incoming |-> 0, outgoing |-> 0]]

\* lines 79-86
ResetTrack(st, track_id) ==
    [st EXCEPT !.th = IF track_id \in DOMAIN @ THEN Del(@, track_id) ELSE @,
               !.cr = IF track_id \in DOMAIN @ THEN Del(@, track_id) ELSE @,
               !.dt = IF track_id \in DOMAIN @ THEN Del(@, track_id) ELSE @]

\* the eviction test with >= for >
Expired_AtThreshold(n) == n >= max_disappeared

\* line 96
Expired(n) == n > max_disappeared

\* lines 93-99 with the counted flag of an absent track cleared
UpdateDisappeared_ClearsCounted(st, track_id, active_track_ids) ==
    IF track_id \notin active_track_ids
    THEN LET n == (IF track_id \in DOMAIN st.dt THEN st.dt[track_id] ELSE 0) + 1
             st1 == [st EXCEPT !.dt = Put(@, track_id, n),
                               !.cr = [@ EXCEPT ![track_id].counted = FALSE]]
         IN  IF Expired(n)
             THEN [ResetTrack(st1, track_id) EXCEPT !.life[track_id].n = 0,
                                                     !.life[track_id].first = << >>,
                                                     !.life[track_id].seen = << >>,
                                                     !.life[track_id].credited = 0,
                                                     !.life[track_id].evictions = @ + 1]
             ELSE st1
    ELSE [st EXCEPT !.dt = Put(@, track_id, 0)]

\* lines 93-99 for one track id of all_tracks
UpdateDisappeared(st, track_id, active_track_ids) ==
    IF track_id \notin active_track_ids
    THEN LET n == (IF track_id \in DOMAIN st.dt THEN st.dt[track_id] ELSE 0) + 1
             st1 == [st EXCEPT !.dt = Put(@, track_id, n)]
         IN  IF Expired(n)
             THEN [ResetTrack(st1, track_id) EXCEPT !.life[track_id].n = 0,
                                                     !.life[track_id].first = << >>,
                                                     !.life[track_id].seen = << >>,
                                                     !.life[track_id].credited = 0,
                                                     !.life[track_id].evictions = @ + 1]
             ELSE st1
    ELSE [st EXCEPT !.dt = Put(@, track_id, 0)]

RECURSIVE UpdateDisappearedTracks(_, _, _)
UpdateDisappearedTracks(st, all_tracks, active_track_ids) ==
    IF all_tracks = {} THEN st
    ELSE LET track_id == MinOf(all_tracks)
         IN  UpdateDisappearedTracks(UpdateDisappeared(st, track_id, active_track_ids),
                                     all_tracks \ {track_id}, active_track_ids)

\* history variable: frames since each id was last reported, saturating
AgeGaps(lf, active_track_ids) ==
    [id \in DOMAIN lf |->
        IF id \in active_track_ids \/ lf[id].gap = -1 \/ lf[id].gap > max_disappeared + 1
        THEN lf[id]
        ELSE [lf[id] EXCEPT !.gap = @ + 1]]

\* PersonTracker.process_frame: det maps each reported track id to its box
ProcessFrame(st, pos, det) ==
    LET st1 == ProcessBoxes(st, pos, det, DOMAIN det)
    IN  IF st1.error # "none" THEN st1
        ELSE LET st2 == UpdateDisappearedTracks(st1, DOMAIN st1.th, DOMAIN det)
             IN  [st2 EXCEPT !.life = AgeGaps(@, DOMAIN det)]

(***************************************************************************)
(* CSVLogger                                                               *)
(***************************************************************************)
Header == <<"timestamp", "total_present_inside", "incoming_last_interval", "outgoing_last_interval">>

ZeroCounts == [total |-> 0, incoming |-> 0, outgoing |-> 0]

\* CSVLogger.__init__
NewLogger(fps, interval_seconds) ==
    [fps |-> fps, interval_seconds |-> interval_seconds,
     last_interval |-> LastIntervalInit, interval_start_counts |-> ZeroCounts]

\* int(frame_count / fps / interval_seconds) for positive integer fps and interval
CurrentInterval(lg, fc) == fc \div (lg.fps * lg.interval_seconds)

\* seconds added to start_time by get_timestamp
Seconds(lg, fc) == fc \div lg.fps

DivisionFails(lg) == lg.fps = 0 \/ lg.interval_seconds = 0

\* should_log with >= for >
ShouldLog_SameInterval(lg, fc) == CurrentInterval(lg, fc) >= lg.last_interval

ShouldLog(lg, fc) == CurrentInterval(lg, fc) > lg.last_interval

\* the row written by log_counts
Row(lg, fc, current_counts) ==
    << Seconds(lg, fc), current_counts.total,
       current_counts.incoming - lg.interval_start_counts.incoming,
       current_counts.outgoing - lg.interval_start_counts.outgoing >>

\* the logger after an emission that forgets to move the baseline
Logged_KeepsBaseline(lg, fc, current_counts) ==
    [lg EXCEPT !.last_interval = CurrentInterval(lg, fc)]

\* the logger after an emission, lines 50-51
Logged(lg, fc, current_counts) ==
    [lg EXCEPT !.last_interval = CurrentInterval(lg, fc),
               !.interval_start_counts = current_counts]

\* log_counts that treats a zero rate as "no boundary passed"
LogCounts_ToleratesZero(lst, fc, current_counts, force) ==
    IF DivisionFails(lst.lg)
    THEN [lst EXCEPT !.ret = FALSE]
    ELSE IF ShouldLog(lst.lg, fc) \/ force
    THEN [lst EXCEPT !.file = Append(@, Row(lst.lg, fc, current_counts)),
                     !.lg = Logged(@, fc, current_counts),
                     !.emitted = Append(@, [frame |-> fc, force |-> force,
                                            counts |-> current_counts]),
                     !.ret = TRUE]
    ELSE [lst EXCEPT !.ret = FALSE]

\* log_counts that opens the file with mode 'w' instead of 'a'
LogCounts_Truncating(lst, fc, current_counts, force) ==
    IF DivisionFails(lst.lg)
    THEN [lst EXCEPT !.error = "ZeroDivisionError"]
    ELSE IF ShouldLog(lst.lg, fc) \/ force
    THEN [lst EXCEPT !.file = << Row(lst.lg, fc, current_counts) >>,
                     !.lg = Logged(@, fc, current_counts),
                     !.emitted = Append(@, [frame |-> fc, force |-> force,
                                            counts |-> current_counts]),
                     !.ret = TRUE]
    ELSE [lst EXCEPT !.ret = FALSE]

\* CSVLogger.log_counts on the record lst = [lg, file, emitted, error, ret];
\* ret is the value returned, "None" when the call raised
LogCounts(lst, fc, current_counts, force) ==
    IF DivisionFails(lst.lg)
    THEN [lst EXCEPT !.error = "ZeroDivisionError"]
    ELSE IF ShouldLog(lst.lg, fc) \/ force
    THEN [lst EXCEPT !.file = Append(@, Row(lst.lg, fc, current_counts)),
                     !.lg = Logged(@, fc, current_counts),
                     !.emitted = Append(@, [frame |-> fc, force |-> force,
                                            counts |-> current_counts]),
                     !.ret = TRUE]
    ELSE [lst EXCEPT !.ret = FALSE]

\* history variable: crossings accepted between the records cr0 and cr1 of
\* one frame by tracks whose first_position is side
AcceptedFrom(cr0, cr1, side) ==
    Cardinality({id \in DOMAIN cr1 :
        /\ cr1[id].counted
        /\ ~(id \in DOMAIN cr0 /\ cr0[id].counted)
        /\ cr1[id].first_position = side})

NoCrossings == [in |-> 0, out |-> 0]

\* log_counts has not been called
NoCall == [force |-> FALSE, returned |-> "None"]

\* the arguments of a log_counts call
LoggerState(lg, file, em, err) == [lg |-> lg, file |-> file, emitted |-> em, error |-> err, ret |-> "None"]

\* history variable: the open span takes the crossings of the frame; a new
\* record closes it
SpanAfter(sp, cr0, cr1, emitted0, emitted1) ==
    LET opened == [in |-> sp.open.in + AcceptedFrom(cr0, cr1, "outside"),
                   out |-> sp.open.out + AcceptedFrom(cr0, cr1, "inside")]
    IN  IF Len(emitted1) > Len(emitted0)
        THEN [open |-> NoCrossings, closed |-> Append(sp.closed, opened)]
        ELSE [sp EXCEPT !.open = opened]

(***************************************************************************)
(* State after construction                                                *)
(***************************************************************************)
InitTracker ==
    /\ track_history = EmptyMap
    /\ crossing_records = EmptyMap
    /\ disappeared_tracks = EmptyMap
    /\ counts = ZeroCounts
    /\ frame_count = 0
    /\ csv_file = << Header >>
    /\ error = "none"
    /\ last_det = EmptyMap
    /\ life = [id \in TrackIds |-> NewLife]
    /\ emitted = << >>
    /\ span = [open |-> NoCrossings, closed |-> << >>]
    /\ log_call = NoCall
    /\ job = "running"
    /\ jobs = EmptyMap
    /\ tasks = EmptyMap
    /\ script = [short |-> 0, long |-> 0, left |-> 0]

Init ==
    /\ InitTracker
    /\ position \in {VideoPosition(d) : d \in Directions}
    /\ csv_logger = NewLogger(1, 2)

(***************************************************************************)
(* One iteration of the frame loop of process_video (skip_frames = 0)      *)
(***************************************************************************)
VideoStep(det) ==
    /\ error = "none"
    /\ job = "running"
    /\ \E st \in {ProcessFrame([th |-> track_history, cr |-> crossing_records, dt |-> disappeared_tracks,
                   counts |-> counts, error |-> "none", life |-> life], position, det)} :
       \E lst \in {IF st.error # "none" THEN LoggerState(csv_logger, csv_file, emitted, st.error)
                  ELSE LogCounts(LoggerState(csv_logger, csv_file, emitted, st.error), frame_count + 1, st.counts, FALSE)} :
           /\ frame_count' = frame_count + 1
           /\ track_history' = st.th
           /\ crossing_records' = st.cr
           /\ disappeared_tracks' = st.dt
           /\ counts' = st.counts
           /\ life' = st.life
           /\ csv_logger' = lst.lg
           /\ csv_file' = lst.file
           /\ emitted' = lst.emitted
           /\ error' = lst.error
           /\ span' = SpanAfter(span, crossing_records, st.cr, emitted, lst.emitted)
           /\ log_call' = IF st.error # "none" THEN log_call ELSE [force |-> FALSE, returned |-> lst.ret]
    /\ last_det' = det
    /\ UNCHANGED <<position, job, jobs, tasks>>

Frame ==
    /\ frame_count < MaxFrames
    /\ \E det \in Detections(TrackIds, Boxes) : VideoStep(det)
    /\ UNCHANGED script

Next == Frame

Spec == Init /\ [][Next]_vars

(***************************************************************************)
(* Jobs whose PositionConfig is any value the pydantic model accepts       *)
(***************************************************************************)
InitConfig ==
    /\ InitTracker
    /\ position \in PositionConfigs
    /\ csv_logger = NewLogger(1, 2)

SpecConfig == InitConfig /\ [][Next]_vars

(***************************************************************************)
(* The five-point scenario: one track, boundary 200, door direction down   *)
(***************************************************************************)
InitScenario ==
    /\ InitTracker
    /\ position = VideoPosition("down")
    /\ csv_logger = NewLogger(30, 60)

ScenarioFrame ==
    /\ frame_count < MaxScenarioFrames
    /\ \E det \in Detections(LongIds, ScenarioBoxes) : VideoStep(det)
    /\ UNCHANGED script

NextScenario == ScenarioFrame

SpecScenario == InitScenario /\ [][NextScenario]_vars

(***************************************************************************)
(* Long jobs: a few free frames, one long run of identical frames (the     *)
(* track absent, or reported at the same place), a few free frames         *)
(***************************************************************************)
InitLong ==
    /\ InitTracker
    /\ position \in {VideoPosition(d) : d \in Directions}
    /\ csv_logger = NewLogger(30, 60)

\* lengths of the long run: absences around the eviction threshold, presences
\* that fill the history up to its cap
RunLengths(det) ==
    IF DOMAIN det = {}
    THEN {max_disappeared, max_disappeared + 1}
    ELSE {max_disappeared - 1}

FreeFrame ==
    /\ script.left = 0
    /\ \/ script.long = 0 /\ script.short < MaxPrefix
       \/ script.long = 1 /\ script.short < MaxSuffix
    /\ \E det \in Detections(LongIds, Boxes) : VideoStep(det)
    /\ script' = [script EXCEPT !.short = @ + 1]

StartRun ==
    /\ script.left = 0
    /\ script.long = 0
    /\ \E det \in Detections(LongIds, Boxes) :
          /\ VideoStep(det)
          /\ \E n \in RunLengths(det) : script' = [short |-> 0, long |-> 1, left |-> n - 1]

ContinueRun ==
    /\ script.left > 0
    /\ VideoStep(last_det)
    /\ script' = [script EXCEPT !.left = @ - 1]

NextLong == FreeFrame \/ StartRun \/ ContinueRun

SpecLong == InitLong /\ [][NextLong]_vars

(***************************************************************************)
(* Direct calls of CSVLogger.log_counts, frame indices non-decreasing      *)
(***************************************************************************)
CountsArgs ==
    { [total |-> i - o, incoming |-> i, outgoing |-> o] : i \in LogCountValues, o \in LogCountValues }

InitLogger ==
    /\ InitTracker
    /\ position = VideoPosition("down")
    /\ csv_logger = NewLogger(1, 2)

LogCountsCall ==
    /\ error = "none"
    /\ script.short < MaxCalls
    /\ \E fc \in 1..MaxLogFrame, current_counts \in CountsArgs, force \in BOOLEAN :
          /\ fc >= frame_count
          /\ \E lst \in {LogCounts(LoggerState(csv_logger, csv_file, emitted, error),
                                   fc, current_counts, force)} :
                /\ csv_logger' = lst.lg
                /\ csv_file' = lst.file
                /\ emitted' = lst.emitted
                /\ error' = lst.error
                /\ span' = SpanAfter(span, crossing_records, crossing_records, emitted, lst.emitted)
                /\ log_call' = [force |-> force, returned |-> lst.ret]
          /\ frame_count' = fc
          /\ counts' = current_counts
    /\ script' = [script EXCEPT !.short = @ + 1]
    /\ UNCHANGED <<position, track_history, crossing_records, disappeared_tracks, last_det, life, job,
                   jobs, tasks>>

NextLogger == LogCountsCall

SpecLogger == InitLogger /\ [][NextLogger]_vars

(***************************************************************************)
(* log_counts called with force = False on the frame indices 1, 2, 3, ...  *)
(* in order, as the frame loop does when no frame is skipped                *)
(***************************************************************************)
\* (fps, interval_seconds) of the logger
TickRates == { <<30, 60>>, <<1, 2>>, <<2, 3>>, <<3, 1>> }

InitTicks ==
    /\ InitTracker
    /\ position = VideoPosition("down")
    /\ \E rate \in TickRates : csv_logger = NewLogger(rate[1], rate[2])

LogTick ==
    /\ error = "none"
    /\ frame_count + 1 < (MaxTickIntervals + 1) * csv_logger.fps * csv_logger.interval_seconds
    /\ \E current_counts \in CountsArgs :
          /\ \E lst \in {LogCounts(LoggerState(csv_logger, csv_file, emitted, error),
                                   frame_count + 1, current_counts, FALSE)} :
                /\ csv_logger' = lst.lg
                /\ csv_file' = lst.file
                /\ emitted' = lst.emitted
                /\ error' = lst.error
                /\ span' = SpanAfter(span, crossing_records, crossing_records, emitted, lst.emitted)
                /\ log_call' = [force |-> FALSE, returned |-> lst.ret]
          /\ counts' = current_counts
    /\ frame_count' = frame_count + 1
    /\ UNCHANGED <<position, track_history, crossing_records, disappeared_tracks, last_det, life, job,
                   jobs, tasks, script>>

NextTicks == LogTick

SpecTicks == InitTicks /\ [][NextTicks]_vars

(***************************************************************************)
(* Whole jobs of process_video: frames until cap.read() fails, then the    *)
(* code after the loop                                                     *)
(***************************************************************************)
InitJob ==
    /\ InitTracker
    /\ position \in {VideoPosition(d) : d \in Directions}
    /\ csv_logger = NewLogger(1, 4)

JobFrame ==
    /\ frame_count < MaxJobFrames
    /\ \E det \in Detections(LongIds, Boxes) : VideoStep(det)
    /\ UNCHANGED script

\* process_video's end with a forced record written after the loop
EndOfVideo_Flushes ==
    /\ error = "none"
    /\ job = "running"
    /\ job' = "returned"
    /\ \E lst \in {LogCounts(LoggerState(csv_logger, csv_file, emitted, error),
                             frame_count, counts, TRUE)} :
          /\ csv_logger' = lst.lg
          /\ csv_file' = lst.file
          /\ emitted' = lst.emitted
          /\ span' = SpanAfter(span, crossing_records, crossing_records, emitted, lst.emitted)
          /\ log_call' = [force |-> TRUE, returned |-> lst.ret]
    /\ UNCHANGED <<position, track_history, crossing_records, disappeared_tracks, counts,
                   frame_count, error, last_det, life, jobs, tasks, script>>

\* lines 246-248 and 299-311: cap.read() fails, the loop is left and
\* process_video releases its resources, prints and returns
EndOfVideo ==
    /\ error = "none"
    /\ job = "running"
    /\ job' = "returned"
    /\ UNCHANGED <<position, track_history, crossing_records, disappeared_tracks, counts,
                   frame_count, csv_logger, csv_file, error, last_det, life, emitted, span,
                   log_call, jobs, tasks, script>>

NextJob == JobFrame \/ EndOfVideo

SpecJob == InitJob /\ [][NextJob]_vars

(***************************************************************************)
(* Jobs whose interval is any value the API's CountingConfig accepts       *)
(***************************************************************************)
\* server.py line 80: interval: int = Field(DEFAULT_INTERVAL, ge=0)
CountingConfigAccepts(interval) == interval >= 0

Intervals == {i \in -1..2 : CountingConfigAccepts(i)}

InitInterval ==
    /\ InitTracker
    /\ position \in {VideoPosition(d) : d \in Directions}
    /\ \E interval \in Intervals : csv_logger = NewLogger(1, interval)

SpecInterval == InitInterval /\ [][NextJob]_vars

(***************************************************************************)
(* server.py: start_counting and process_video_task; the counter           *)
(* subprocess is the environment and exits with any return code, or        *)
(* subprocess.run raises                                                   *)
(***************************************************************************)
ReturnCodes == {0, 1, 2}

counter_vars == <<position, track_history, crossing_records, disappeared_tracks, counts,
                  frame_count, csv_logger, csv_file, error, last_det, life, emitted, span,
                  log_call, job, script>>

\* the row inserted by start_counting, lines 227-243
QueuedJob == [status |-> "queued", error_message |-> "None", completed_at |-> "None"]

PendingTask == [pc |-> "pending", raised |-> FALSE, result |-> << >>]

\* the status written after subprocess.run has returned, >= for ==
StatusAfterExit_NonNegative(returncode) == IF returncode >= 0 THEN "completed" ELSE "failed"

\* lines 154-169: the status written after subprocess.run has returned
StatusAfterExit(returncode) == IF returncode = 0 THEN "completed" ELSE "failed"

InitServer ==
    /\ InitTracker
    /\ position = VideoPosition("down")
    /\ csv_logger = NewLogger(1, 2)

\* start_counting with a configuration that passes validation
StartCounting ==
    /\ Cardinality(DOMAIN jobs) < MaxJobs
    /\ \E job_id \in {Cardinality(DOMAIN jobs) + 1} :
          /\ jobs' = Put(jobs, job_id, QueuedJob)
          /\ tasks' = Put(tasks, job_id, PendingTask)
    /\ UNCHANGED counter_vars

\* process_video_task, lines 121-128
TaskStart ==
    /\ \E job_id \in DOMAIN tasks :
          /\ tasks[job_id].pc = "pending"
          /\ jobs' = [jobs EXCEPT ![job_id].status = "processing"]
          /\ tasks' = [tasks EXCEPT ![job_id].pc = "running"]
    /\ UNCHANGED counter_vars

\* process_video_task, lines 149-169: subprocess.run returns
SubprocessExits ==
    /\ \E job_id \in DOMAIN tasks, returncode \in ReturnCodes :
          /\ tasks[job_id].pc = "running"
          /\ jobs' = [jobs EXCEPT ![job_id] =
                        [status |-> StatusAfterExit(returncode),
                         error_message |-> IF returncode = 0 THEN @.error_message ELSE "stderr",
                         completed_at |-> "now"]]
          /\ tasks' = [tasks EXCEPT ![job_id] = [pc |-> "done", raised |-> FALSE,
                                                  result |-> <<returncode>>]]
    /\ UNCHANGED counter_vars

\* process_video_task, lines 171-177: an exception inside the try block
SubprocessRaises ==
    /\ \E job_id \in DOMAIN tasks :
          /\ tasks[job_id].pc = "running"
          /\ jobs' = [jobs EXCEPT ![job_id] =
                        [status |-> "failed", error_message |-> "str(e)", completed_at |-> "now"]]
          /\ tasks' = [tasks EXCEPT ![job_id] = [pc |-> "done", raised |-> TRUE, result |-> << >>]]
    /\ UNCHANGED counter_vars

NextServer == StartCounting \/ TaskStart \/ SubprocessExits \/ SubprocessRaises

SpecServer == InitServer /\ [][NextServer]_vars

\* the event loop runs every queued background task, and the counter
\* subprocess of a task comes to an end
SpecServerLive ==
    /\ SpecServer
    /\ WF_vars(TaskStart)
    /\ WF_vars(SubprocessExits \/ SubprocessRaises)

(***************************************************************************)
(* Claims                                                                  *)
(***************************************************************************)
Live == DOMAIN track_history

\* C1: after any sequence of processed frames, with any detections and any
\* valid boundary configuration, total = incoming - outgoing
C1_TotalIsNet == counts.total = counts.incoming - counts.outgoing

C1_Witness == counts.incoming >= 1 /\ counts.outgoing >= 1

WasCounted(id) == id \in DOMAIN crossing_records /\ crossing_records[id].counted

\* C2: within one lifetime of a track id the counted flag is set at most once
\* and never cleared: the track is credited with at most one counter update,
\* exactly when counted is set; a counted track that stays live stays counted
\* and is credited nothing more, and a frame that reports only counted tracks
\* leaves incoming, outgoing and total as they were
C2_CountedOnce ==
    /\ [](\A id \in TrackIds :
            /\ life[id].credited <= 1
            /\ id \in DOMAIN crossing_records =>
                  (crossing_records[id].counted <=> life[id].credited = 1))
    /\ [][ /\ \A id \in DOMAIN crossing_records :
                (crossing_records[id].counted /\ id \in DOMAIN crossing_records') =>
                    /\ crossing_records'[id].counted
                    /\ life'[id].credited = life[id].credited
           /\ (\A id \in DOMAIN last_det' : WasCounted(id)) => counts' = counts ]_vars

\* a counted track that has since changed side again
C2_Witness ==
    \E id \in DOMAIN crossing_records :
        /\ crossing_records[id].counted
        /\ crossing_records[id].last_position = crossing_records[id].first_position

\* the Outside rule of the four valid configurations, as tabulated
TableOutside(pos, pt) ==
    \/ pos.line_orientation = "horizontal" /\ pos.door_direction = "down" /\ pt[2] < pos.boundary_cords
    \/ pos.line_orientation = "horizontal" /\ pos.door_direction = "up" /\ pt[2] > pos.boundary_cords
    \/ pos.line_orientation = "vertical" /\ pos.door_direction = "right" /\ pt[1] < pos.boundary_cords
    \/ pos.line_orientation = "vertical" /\ pos.door_direction = "left" /\ pt[1] > pos.boundary_cords

OnBoundary(pos, pt) ==
    IF pos.line_orientation = "horizontal" THEN pt[2] = pos.boundary_cords
    ELSE pt[1] = pos.boundary_cords

\* C6: the side process_frame computes for a reported point is Outside exactly
\* under the tabulated rule of the configuration and Inside otherwise; a point
\* on the boundary coordinate is Inside in all four configurations
C6_SideTable ==
    \A id \in DOMAIN last_det :
        LET pt == Center(last_det[id])
            side == crossing_records[id].last_position
        IN  /\ side = (IF TableOutside(position, pt) THEN "outside" ELSE "inside")
            /\ OnBoundary(position, pt) => side = "inside"

C6_Witness ==
    \E id \in DOMAIN last_det :
        /\ OnBoundary(position, Center(last_det[id]))
        /\ position.door_direction = "down"
        /\ crossing_records[id].last_position = "inside"
        /\ \E other \in DOMAIN last_det : crossing_records[other].last_position = "outside"

\* C3: an eviction removes the id from track_history, crossing_records and
\* disappeared_tracks in one step, and an id that enters track_history (for
\* the first time or after an eviction) starts fresh: its history is the new
\* point alone, first_position is the side of that point, counted is False
C3_EvictThenFresh ==
    [][ /\ \A id \in DOMAIN track_history :
            id \notin DOMAIN track_history' =>
                /\ id \notin DOMAIN crossing_records'
                /\ id \notin DOMAIN disappeared_tracks'
        /\ \A id \in DOMAIN track_history' :
            id \notin DOMAIN track_history =>
                /\ id \in DOMAIN last_det'
                /\ track_history'[id] = << Center(last_det'[id]) >>
                /\ crossing_records'[id].first_position =
                       (IF TableOutside(position, Center(last_det'[id])) THEN "outside" ELSE "inside")
                /\ crossing_records'[id].counted = FALSE ]_vars

\* the id was counted, evicted, observed again and counted a second time
C3_Witness ==
    \E id \in DOMAIN crossing_records :
        /\ life[id].evictions = 1
        /\ crossing_records[id].counted
        /\ counts.incoming + counts.outgoing = 2

\* C4: for every track id that was ever reported, with gap the number of
\* consecutive frames since its latest report: the id is known exactly while
\* gap <= 90, its disappearance counter equals gap, so the track is whole
\* after 90 absent frames, gone at the end of the 91st, and every surviving
\* counter is in 0..90
C4_DisappearanceCounter ==
    \A id \in TrackIds :
        /\ life[id].gap \in 0..max_disappeared <=> id \in DOMAIN track_history
        /\ id \in DOMAIN track_history =>
              /\ id \in DOMAIN disappeared_tracks
              /\ id \in DOMAIN crossing_records
              /\ disappeared_tracks[id] = life[id].gap
              /\ disappeared_tracks[id] \in 0..max_disappeared
        /\ id \notin DOMAIN track_history =>
              /\ id \notin DOMAIN disappeared_tracks
              /\ id \notin DOMAIN crossing_records

\* the end of the 91st absent frame
C4_Witness ==
    \E id \in TrackIds :
        /\ life[id].gap = max_disappeared + 1
        /\ life[id].evictions = 1
        /\ id \notin DOMAIN disappeared_tracks

Accepted(id) ==
    /\ id \in DOMAIN crossing_records'
    /\ crossing_records'[id].counted
    /\ ~WasCounted(id)

SidesOf(track, side) ==
    Cardinality({i \in 1..Len(track) :
        (IF TableOutside(position, track[i]) THEN "outside" ELSE "inside") = side})

\* C8: whenever a crossing is accepted, the history of the track at that
\* moment holds at least one point the boundary classifier puts Outside and at
\* least one it puts Inside
C8_BothSidesAtAcceptance ==
    [][ \A id \in TrackIds :
            Accepted(id) =>
                /\ SidesOf(track_history'[id], "outside") >= min_required_default
                /\ SidesOf(track_history'[id], "inside") >= min_required_default ]_vars

ScenarioTrack == << <<100, 250>>, <<100, 240>>, <<100, 230>>, <<100, 190>>, <<100, 180>> >>

\* one track, reported in five consecutive frames at y = 250, 240, 230, 190, 180
ScenarioDone ==
    /\ frame_count = 5
    /\ DOMAIN track_history = {1}
    /\ track_history[1] = ScenarioTrack

\* C5 as stated: the scenario ends at incoming = 1, outgoing = 0, total = 1
C5_ScenarioIncoming ==
    ScenarioDone =>
        counts = [total |-> 1, incoming |-> 1, outgoing |-> 0]

\* C5 as amended: the track starts Inside (y = 250 is not below 200) and is
\* verified exactly once, as an exit: incoming = 0, outgoing = 1, total = -1
C5_ScenarioOutgoing ==
    ScenarioDone =>
        /\ counts = [total |-> -1, incoming |-> 0, outgoing |-> 1]
        /\ crossing_records[1].counted
        /\ crossing_records[1].first_position = "inside"
        /\ life[1].credited = 1

C5_Witness == ScenarioDone /\ crossing_records[1].counted

InvalidPair(pos) ==
    \/ pos.line_orientation = "horizontal" /\ pos.door_direction \in {"left", "right"}
    \/ pos.line_orientation = "vertical" /\ pos.door_direction \in {"up", "down"}

\* C7: a job with an invalid (orientation, door direction) pair processes no
\* frame and changes no track or counter state
C7_InvalidPairRejected ==
    InvalidPair(position) =>
        /\ frame_count = 0
        /\ track_history = EmptyMap
        /\ crossing_records = EmptyMap
        /\ disappeared_tracks = EmptyMap
        /\ counts = ZeroCounts

IntervalIndex(fc) == fc \div (csv_logger.fps * csv_logger.interval_seconds)

\* C9 as stated: no two emitted records belong to the same interval index,
\* whatever the values of force
C9_OneRecordPerInterval ==
    \A i, j \in 1..Len(emitted) :
        i < j => IntervalIndex(emitted[i].frame) # IntervalIndex(emitted[j].frame)

\* C9 as amended: a record emitted by a call with force = False has an
\* interval index greater than that of every earlier record, so only a forced
\* call can emit a second record for an interval index
C9_UnforcedRecordsAdvance ==
    \A i, j \in 1..Len(emitted) :
        (i < j /\ ~emitted[j].force) =>
            IntervalIndex(emitted[i].frame) < IntervalIndex(emitted[j].frame)

C9_Witness ==
    /\ Len(emitted) = 3
    /\ emitted[1].force /\ ~emitted[2].force /\ ~emitted[3].force

RECURSIVE SumColumn(_, _, _)
SumColumn(rows, col, k) ==
    IF k < 2 THEN 0 ELSE rows[k][col] + SumColumn(rows, col, k - 1)

PreviousCounts(k) == IF k = 1 THEN ZeroCounts ELSE emitted[k - 1].counts

\* C10: the k-th record carries the total passed to its call and the
\* differences of incoming and outgoing against the counts of the previous
\* emission (zero before the first); the deltas of all records sum to the
\* counters of the latest emission
C10_DeltasTelescope ==
    /\ Len(csv_file) = Len(emitted) + 1
    /\ csv_file[1] = Header
    /\ \A k \in 1..Len(emitted) :
          /\ csv_file[k + 1][2] = emitted[k].counts.total
          /\ csv_file[k + 1][3] = emitted[k].counts.incoming - PreviousCounts(k).incoming
          /\ csv_file[k + 1][4] = emitted[k].counts.outgoing - PreviousCounts(k).outgoing
    /\ Len(emitted) >= 1 =>
          /\ SumColumn(csv_file, 3, Len(csv_file)) = emitted[Len(emitted)].counts.incoming
          /\ SumColumn(csv_file, 4, Len(csv_file)) = emitted[Len(emitted)].counts.outgoing
          /\ csv_logger.interval_start_counts = emitted[Len(emitted)].counts

\* three records whose counters went up and down between the emissions
C10_Witness ==
    /\ Len(emitted) = 3
    /\ emitted[1].counts.incoming = 1
    /\ emitted[2].counts.incoming = 0
    /\ emitted[3].counts.incoming = 1
    /\ csv_file[3][3] = -1

FramesPerInterval == csv_logger.fps * csv_logger.interval_seconds

PreviousTotal(k) == IF k = 1 THEN 0 ELSE csv_file[k][2]

OppositePair == [in |-> 1, out |-> 1]

\* C12: when exactly two tracks are accepted between two consecutive
\* emissions, one Outside-to-Inside and one Inside-to-Outside, the record
\* that ends the span has incoming delta 1, outgoing delta 1 and the total of
\* the previous record
C12_OppositePairCancels ==
    /\ Len(span.closed) = Len(emitted)
    /\ \A k \in 1..Len(span.closed) :
          span.closed[k] = OppositePair =>
             /\ csv_file[k + 1][3] = 1
             /\ csv_file[k + 1][4] = 1
             /\ csv_file[k + 1][2] = PreviousTotal(k)

\* the second record closes a span with one entry and one exit
C12_Witness ==
    /\ Len(span.closed) = 2
    /\ span.closed[2] = OppositePair
    /\ Cardinality({id \in TrackIds : WasCounted(id)}) = 2

SideOf(pt) == IF TableOutside(position, pt) THEN "outside" ELSE "inside"

\* C13: total is not clamped at zero: every accepted exit lowers it by one
\* whatever its sign, a negative total raises no error and the next frame is
\* processed as usual
C13_TotalNotClamped ==
    /\ [][counts'.total = counts.total
                            + AcceptedFrom(crossing_records, crossing_records', "outside")
                            - AcceptedFrom(crossing_records, crossing_records', "inside")]_vars
    /\ [](counts.total < 0 =>
            /\ error = "none"
            /\ frame_count < MaxFrames => ENABLED Frame)

\* track 1 is first seen Inside and verified Outside on frame 3 (total -1);
\* track 2, first seen Inside on frame 2, is verified Outside on frame 4
C13_Witness ==
    /\ position.door_direction = "up"
    /\ 1 \in Live /\ 2 \in Live
    /\ [i \in 1..Len(track_history[1]) |-> SideOf(track_history[1][i])]
          = <<"inside", "inside", "outside", "outside">>
    /\ [i \in 1..Len(track_history[2]) |-> SideOf(track_history[2][i])]
          = <<"inside", "inside", "outside">>
    /\ counts = [total |-> -2, incoming |-> 0, outgoing |-> 2]
    /\ error = "none"

\* the row of the k-th emission
EmittedRow(k) ==
    << emitted[k].frame \div csv_logger.fps, emitted[k].counts.total,
       emitted[k].counts.incoming - PreviousCounts(k).incoming,
       emitted[k].counts.outgoing - PreviousCounts(k).outgoing >>

\* C14: from construction on the file is the header row followed by the
\* emitted records in emission order; the header is written once, as the
\* first row, and a log_counts call never modifies or removes a row already
\* written
C14_HeaderThenRecords ==
    /\ [](/\ Len(csv_file) = Len(emitted) + 1
          /\ csv_file[1] = Header
          /\ \A k \in 1..Len(emitted) : csv_file[k + 1] = EmittedRow(k))
    /\ [][/\ Len(csv_file') >= Len(csv_file)
          /\ \A k \in 2..Len(csv_file) : csv_file'[k] = csv_file[k]]_vars

\* three records, forced and unforced, after the header
C14_Witness ==
    /\ Len(csv_file) = 4
    /\ csv_file[1] = Header
    /\ ~emitted[1].force /\ emitted[2].force /\ ~emitted[3].force
    /\ csv_file[2][3] = 1 /\ csv_file[3][3] = 0 /\ csv_file[4][4] = 1

\* the ids accepted by the step as a crossing from side a to side b
AcceptedAs(a, b) ==
    {id \in TrackIds : /\ Accepted(id)
                       /\ crossing_records'[id].first_position = a
                       /\ crossing_records'[id].last_position = b}

\* C15: the counters change only when a crossing is accepted, by
\* (incoming+1, total+1) for first_position outside and current side inside
\* or by (outgoing+1, total-1) for first_position inside and current side
\* outside; every other step, disappearance counting and the eviction of a
\* counted track included, leaves the three counters unchanged
C15_CountersChangeOnlyOnAcceptance ==
    [][/\ \A id \in TrackIds :
             Accepted(id) => id \in AcceptedAs("outside", "inside") \cup AcceptedAs("inside", "outside")
       /\ counts'.incoming = counts.incoming + Cardinality(AcceptedAs("outside", "inside"))
       /\ counts'.outgoing = counts.outgoing + Cardinality(AcceptedAs("inside", "outside"))
       /\ counts'.total = counts.total + Cardinality(AcceptedAs("outside", "inside"))
                                        - Cardinality(AcceptedAs("inside", "outside"))
       /\ (\A id \in TrackIds : ~Accepted(id)) => counts' = counts]_vars

\* a counted track has been evicted and its update is still in the counters
C15_Witness ==
    /\ life[1].evictions = 1
    /\ 1 \notin Live
    /\ 1 \notin DOMAIN crossing_records
    /\ counts = [total |-> -1, incoming |-> 0, outgoing |-> 1]

\* C16: a track is counted only in a step that finds it uncounted, on the
\* side opposite to first_position and with at least min_track_length (3)
\* points in its history; hence no track is counted on the first or second
\* observation of its lifetime, whatever sides those are on
C16_CountedFromThirdObservation ==
    /\ [][\A id \in TrackIds :
             Accepted(id) =>
                /\ crossing_records'[id].first_position # crossing_records'[id].last_position
                /\ Len(track_history'[id]) >= min_track_length
                /\ life'[id].n >= 3]_vars
    /\ [](\A id \in Live : life[id].n < 3 => ~WasCounted(id))

\* a track that changed side on its second observation is counted on the
\* third, while the other, on its second observation and across the line,
\* is not
C16_Witness ==
    /\ 1 \in Live /\ 2 \in Live
    /\ life[1].n = 3
    /\ [i \in 1..Len(track_history[1]) |-> SideOf(track_history[1][i])]
          = <<"outside", "inside", "inside">>
    /\ WasCounted(1)
    /\ life[2].n = 2
    /\ SideOf(track_history[2][1]) # SideOf(track_history[2][2])
    /\ ~WasCounted(2)

LastPoint(track) == track[Len(track)]

\* C17: for every live track first_position is the side of the first
\* observation of the current lifetime and stays as it is until the track is
\* evicted; last_position is the side of the most recent observation
C17_FirstAndLastPosition ==
    /\ [](\A id \in Live :
            /\ id \in DOMAIN crossing_records
            /\ crossing_records[id].first_position = SideOf(life[id].first)
            /\ crossing_records[id].last_position = SideOf(LastPoint(track_history[id])))
    /\ [][\A id \in Live :
             (id \in DOMAIN track_history' /\ life'[id].evictions = life[id].evictions) =>
                crossing_records'[id].first_position = crossing_records[id].first_position]_vars

\* a lifetime longer than the kept history: the first observation has been
\* dropped from track_history and every kept point is on the other side
C17_Witness ==
    /\ 1 \in Live
    /\ life[1].n > max_disappeared
    /\ crossing_records[1].first_position = "outside"
    /\ crossing_records[1].last_position = "inside"
    /\ \A i \in 1..Len(track_history[1]) : SideOf(track_history[1][i]) = "inside"

\* the points held in the histories of the live tracks
Observed == UNION {{track_history[id][i] : i \in 1..Len(track_history[id])} : id \in Live}

\* _verify_crossing counts the point as outside
VerifyOutside(pt) == PositionsOutside(<<pt>>, position) = 1

\* C18: in each of the four valid configurations _verify_crossing counts a
\* point as outside exactly when the classifier of process_frame puts that
\* point Outside
C18_VerifyAgreesWithClassifier ==
    \A pt \in Observed : VerifyOutside(pt) <=> CurrentPosition(position, pt) = "outside"

\* C19 as stated: the outside test of _verify_crossing is y < boundary for
\* door directions down and up and x < boundary for right and left, so that
\* it departs from the classifier exactly for up and left
C19_DiffersForUpAndLeft ==
    \A pt \in Observed :
        /\ position.door_direction \in {"down", "up"} => (VerifyOutside(pt) <=> pt[2] < position.boundary_cords)
        /\ position.door_direction \in {"right", "left"} => (VerifyOutside(pt) <=> pt[1] < position.boundary_cords)

\* C19, amended: the outside test of _verify_crossing departs from the
\* classifier exactly for door direction down, where it applies the rule
\* body of up (y > boundary) and so disagrees with the classifier on every
\* point off the boundary line; for up, right and left it is the
\* classifier's rule
C19_DiffersForDownOnly ==
    \A pt \in Observed :
        /\ position.door_direction \in {"down", "up"} => (VerifyOutside(pt) <=> pt[2] > position.boundary_cords)
        /\ position.door_direction = "right" => (VerifyOutside(pt) <=> pt[1] < position.boundary_cords)
        /\ position.door_direction = "left" => (VerifyOutside(pt) <=> pt[1] > position.boundary_cords)
        /\ position.door_direction # "down" =>
              (VerifyOutside(pt) <=> CurrentPosition(position, pt) = "outside")
        /\ (position.door_direction = "down" /\ pt[2] # position.boundary_cords) =>
              (VerifyOutside(pt) <=> CurrentPosition(position, pt) # "outside")

\* door direction down: a track classified Outside, Inside, Inside has
\* reached three points and is not accepted, no point of it being outside
\* for _verify_crossing
C19_Witness ==
    /\ position.door_direction = "down"
    /\ 1 \in Live
    /\ [i \in 1..Len(track_history[1]) |-> CurrentPosition(position, track_history[1][i])]
          = <<"outside", "inside", "inside">>
    /\ \A i \in 1..3 : ~VerifyOutside(track_history[1][i])
    /\ ~WasCounted(1)

\* the observations of the track that are not on its first side
OffFirstSide(id) ==
    {i \in 1..Len(track_history[id]) :
        SideOf(track_history[id][i]) # crossing_records[id].first_position}

\* the track left its first side for one frame only and is back on it
SingleNoisyFrame(id) ==
    /\ Cardinality(OffFirstSide(id)) = 1
    /\ \A i \in OffFirstSide(id) : 1 < i /\ i < Len(track_history[id])

\* C20: a track whose observations are all on its first side except for one
\* isolated frame on the opposite side is never counted
C20_SingleNoisyFrameNotCounted ==
    \A id \in Live : SingleNoisyFrame(id) => ~WasCounted(id)

\* the last k elements of a sequence
LastOf(sq, k) == SubSeq(sq, Len(sq) - k + 1, Len(sq))

MinNat(a, b) == IF a < b THEN a ELSE b

\* C21: after every observation the history of a track is the sequence of
\* the most recent min(n, 90) centre points observed in the current lifetime,
\* in observation order, n being the number of observations since creation;
\* its length never exceeds max_disappeared (90)
C21_HistoryIsRecentWindow ==
    \A id \in Live :
        /\ Len(life[id].seen) = life[id].n
        /\ track_history[id] = LastOf(life[id].seen, MinNat(life[id].n, 90))
        /\ Len(track_history[id]) <= max_disappeared

\* 92 observations: the two oldest points, on the other side of the line,
\* are no longer in the history
C21_Witness ==
    /\ 1 \in Live
    /\ life[1].n = 92
    /\ Len(track_history[1]) = 90
    /\ SideOf(life[1].seen[1]) # SideOf(life[1].seen[3])
    /\ SideOf(life[1].seen[2]) # SideOf(life[1].seen[3])
    /\ track_history[1][1] = life[1].seen[3]
    /\ track_history[1][90] # track_history[1][89]

\* the id is reported by the step after k absent frames, 1 <= k <= 90
ReappearsInTime(id) ==
    /\ id \in DOMAIN last_det'
    /\ life[id].gap \in 1..max_disappeared

\* C22: a track reported again after at most 90 consecutive absent frames
\* has not been evicted: its disappearance counter goes back to 0 and it
\* continues with the history, first_position and counted flag it had; an id
\* starts a new track only when the old one has been evicted (or never was)
C22_ReappearanceContinuesTrack ==
    [][\A id \in TrackIds :
          /\ ReappearsInTime(id) =>
                /\ id \in Live
                /\ disappeared_tracks[id] = life[id].gap
                /\ track_history'[id] = AppendPoint(track_history[id], Center(last_det'[id]))
                /\ crossing_records'[id].first_position = crossing_records[id].first_position
                /\ crossing_records[id].counted => crossing_records'[id].counted
                /\ disappeared_tracks'[id] = 0
                /\ life'[id].evictions = life[id].evictions
          /\ (id \in DOMAIN last_det' /\ Len(track_history'[id]) = 1) =>
                /\ id \notin Live
                /\ life[id].gap \notin 0..max_disappeared]_vars

\* three observations with an accepted crossing, exactly 90 absent frames,
\* then the track is reported again and is still the counted track
C22_Witness ==
    /\ frame_count = 94
    /\ 1 \in DOMAIN last_det
    /\ life[1].n = 4
    /\ life[1].evictions = 0
    /\ Len(track_history[1]) = 4
    /\ WasCounted(1)
    /\ crossing_records[1].first_position = SideOf(track_history[1][1])
    /\ disappeared_tracks[1] = 0
    /\ counts.incoming + counts.outgoing = 1

\* C23: at the end of every processed frame track_history, crossing_records
\* and disappeared_tracks have the same key set, after any sequence of
\* observations, absences and evictions
C23_SameKeySets ==
    /\ DOMAIN crossing_records = DOMAIN track_history
    /\ DOMAIN disappeared_tracks = DOMAIN track_history

\* the id was evicted, reported again and is absent once more
C23_Witness ==
    /\ life[1].evictions = 1
    /\ DOMAIN track_history = {1}
    /\ DOMAIN crossing_records = {1}
    /\ DOMAIN disappeared_tracks = {1}
    /\ disappeared_tracks[1] > 0

\* int(frame_count / fps / interval_seconds) > last_interval for the call
\* made by the step, whose frame index is frame_count'
BoundaryPassed ==
    frame_count' \div (csv_logger.fps * csv_logger.interval_seconds) > csv_logger.last_interval

\* C24: log_counts emits a record and returns True exactly when
\* int(frame_count / fps / interval_seconds) > last_interval or force is
\* set; otherwise it returns False and leaves last_interval,
\* interval_start_counts and the CSV file unchanged
C24_EmitsExactlyWhenDue ==
    [][/\ log_call'.returned = (BoundaryPassed \/ log_call'.force)
       /\ log_call'.returned = TRUE =>
             /\ Len(csv_file') = Len(csv_file) + 1
             /\ Len(emitted') = Len(emitted) + 1
             /\ emitted'[Len(emitted')].frame = frame_count'
       /\ log_call'.returned = FALSE =>
             /\ csv_logger'.last_interval = csv_logger.last_interval
             /\ csv_logger'.interval_start_counts = csv_logger.interval_start_counts
             /\ csv_file' = csv_file
             /\ emitted' = emitted]_vars

\* a forced record inside interval 0, an unforced one at the boundary, then
\* a call in the same interval with other counts that returns False
C24_Witness ==
    /\ Len(emitted) = 2
    /\ emitted[1].force /\ emitted[1].frame = 1
    /\ ~emitted[2].force /\ emitted[2].frame = 2
    /\ frame_count = 3
    /\ log_call = [force |-> FALSE, returned |-> FALSE]
    /\ counts # csv_logger.interval_start_counts
    /\ Len(csv_file) = 3

\* C25: in a frame that does not report a known track id, the history and
\* the crossing record of that track stay as they are and only its
\* disappearance counter changes, unless the track is evicted in that frame
C25_AbsentTrackUntouched ==
    [][\A id \in Live :
          id \notin DOMAIN last_det' =>
             /\ id \in DOMAIN track_history' =>
                   /\ track_history'[id] = track_history[id]
                   /\ crossing_records'[id] = crossing_records[id]
                   /\ disappeared_tracks'[id] = disappeared_tracks[id] + 1
             /\ id \notin DOMAIN track_history' =>
                   /\ disappeared_tracks[id] = max_disappeared
                   /\ id \notin DOMAIN crossing_records']_vars

\* a counted track at the end of its 90th absent frame, whole
C25_Witness ==
    /\ 1 \in Live
    /\ 1 \notin DOMAIN last_det
    /\ disappeared_tracks[1] = max_disappeared
    /\ WasCounted(1)
    /\ Len(track_history[1]) = 3
    /\ crossing_records[1].last_position # crossing_records[1].first_position

\* the observations of index 3..k of the lifetime are all on first_position's side
OnFirstSideFromThird(sn, first_position, k) ==
    \A i \in 3..k : SideOf(sn[i]) = first_position

\* C26: for door directions up, left and right _verify_crossing never
\* rejects a call made by process_frame: an uncounted track is counted
\* exactly at the first observation of index >= 3 of its lifetime whose side
\* differs from first_position, also when the history has been truncated
C26_NeverRejectsOffDown ==
    /\ [](position.door_direction # "down" =>
            \A id \in Live :
                ~WasCounted(id) =>
                    OnFirstSideFromThird(life[id].seen, crossing_records[id].first_position, life[id].n))
    /\ [][position.door_direction # "down" =>
            \A id \in TrackIds :
                Accepted(id) =>
                    /\ life'[id].n >= 3
                    /\ SideOf(LastPoint(life'[id].seen)) # crossing_records'[id].first_position
                    /\ OnFirstSideFromThird(life'[id].seen, crossing_records'[id].first_position,
                                            life'[id].n - 1)]_vars

\* 92 observations Outside, the first ones dropped from the history, then
\* one Inside: counted on that observation
C26_Witness ==
    /\ position.door_direction = "left"
    /\ 1 \in Live
    /\ life[1].n = 93
    /\ Len(track_history[1]) = max_disappeared
    /\ \A i \in 1..92 : SideOf(life[1].seen[i]) = "outside"
    /\ SideOf(life[1].seen[93]) = "inside"
    /\ WasCounted(1)
    /\ counts = [total |-> 1, incoming |-> 1, outgoing |-> 0]

\* the step observes the track and the guard of lines 142-144 holds
GuardHeld(id) ==
    /\ id \in DOMAIN last_det'
    /\ ~WasCounted(id)
    /\ crossing_records'[id].first_position # crossing_records'[id].last_position
    /\ Len(track_history'[id]) >= min_track_length

\* no point of the sequence lies beyond the boundary line (y > boundary)
NoneBeyondLine(sq) == \A i \in 1..Len(sq) : sq[i][2] <= position.boundary_cords

\* C27: for door direction down, when the crossing guard holds,
\* _verify_crossing rejects exactly when no point of the history has
\* y > boundary, that is when every point of it classified Inside lies on
\* the boundary line; the track stays uncounted until a point with
\* y > boundary is in its history
C27_DownRejectsWithoutPointBeyond ==
    /\ [][position.door_direction = "down" =>
            \A id \in TrackIds :
                GuardHeld(id) =>
                    /\ ~crossing_records'[id].counted <=> NoneBeyondLine(track_history'[id])
                    /\ NoneBeyondLine(track_history'[id]) <=>
                          \A i \in 1..Len(track_history'[id]) :
                              CurrentPosition(position, track_history'[id][i]) = "inside" =>
                                  track_history'[id][i][2] = position.boundary_cords]_vars
    /\ [](position.door_direction = "down" =>
            \A id \in Live : NoneBeyondLine(life[id].seen) => ~WasCounted(id))

\* Outside, then twice on the line (rejected on the third observation), then
\* beyond the line: counted on the fourth observation
C27_Witness ==
    /\ position.door_direction = "down"
    /\ 1 \in Live
    /\ [i \in 1..Len(track_history[1]) |-> track_history[1][i][2]] = <<199, 200, 200, 201>>
    /\ WasCounted(1)
    /\ counts.incoming = 1

\* C28: process_video never passes force = True and writes nothing after
\* the frame loop, so the crossings accepted after the last emitted record
\* are in no CSV row; a job whose frames all lie in interval 0 leaves the
\* header alone in the file, whatever its final counts
C28_NoFinalFlush ==
    /\ [](\A k \in 1..Len(emitted) : ~emitted[k].force)
    /\ [](/\ Len(span.closed) = Len(csv_file) - 1
          /\ \A k \in 1..Len(span.closed) :
                /\ csv_file[k + 1][3] = span.closed[k].in
                /\ csv_file[k + 1][4] = span.closed[k].out
          /\ SumColumn(csv_file, 3, Len(csv_file)) = counts.incoming - span.open.in
          /\ SumColumn(csv_file, 4, Len(csv_file)) = counts.outgoing - span.open.out)
    /\ [](frame_count < FramesPerInterval => Len(csv_file) = 1)
    /\ [][job' = "returned" => (csv_file' = csv_file /\ csv_logger' = csv_logger)]_vars

\* a returned job with one record, written before its only crossing
C28_Witness ==
    /\ job = "returned"
    /\ Len(csv_file) = 2
    /\ csv_file[2][3] = 0 /\ csv_file[2][4] = 0
    /\ span.open = [in |-> 0, out |-> 1]
    /\ counts = [total |-> -1, incoming |-> 0, outgoing |-> 1]

\* C29: interval_seconds = 0 is accepted by CountingConfig, and with it the
\* first log_counts call fails with a division by zero in should_log before
\* any record is written: the file keeps the header alone and last_interval
\* and interval_start_counts keep their initial values
C29_ZeroIntervalFails ==
    /\ CountingConfigAccepts(0)
    /\ csv_logger.interval_seconds = 0 =>
          /\ Len(csv_file) = 1
          /\ csv_file[1] = Header
          /\ emitted = << >>
          /\ csv_logger.last_interval = LastIntervalInit
          /\ csv_logger.interval_start_counts = ZeroCounts
          /\ frame_count <= 1
          /\ frame_count = 1 <=> error = "ZeroDivisionError"

\* the first frame has been processed by the tracker and its log_counts
\* call has raised
C29_Witness ==
    /\ csv_logger.interval_seconds = 0
    /\ error = "ZeroDivisionError"
    /\ frame_count = 1
    /\ 1 \in Live
    /\ Len(csv_file) = 1
    /\ job = "running"

Terminal == {"completed", "failed"}

\* the status of a job may go from a to b in one step
StatusMove(a, b) ==
    \/ a = b
    \/ a = "queued" /\ b = "processing"
    \/ a = "processing" /\ b \in Terminal

\* C30: the status of a job only moves queued -> processing ->
\* (completed | failed); it becomes completed only when the subprocess exits
\* with return code 0, failed on any other return code or on an exception;
\* a background task that has started ends, with its job completed or
\* failed, and a terminal status never changes
C30_JobStatusMachine ==
    /\ [][\A job_id \in DOMAIN jobs' :
             /\ job_id \notin DOMAIN jobs => jobs'[job_id].status = "queued"
             /\ job_id \in DOMAIN jobs =>
                   /\ StatusMove(jobs[job_id].status, jobs'[job_id].status)
                   /\ jobs[job_id].status \in Terminal => jobs'[job_id] = jobs[job_id]
                   /\ (jobs[job_id].status = "processing" /\ jobs'[job_id].status = "completed") =>
                         (~tasks'[job_id].raised /\ tasks'[job_id].result = <<0>>)
                   /\ (jobs[job_id].status = "processing" /\ jobs'[job_id].status = "failed") =>
                         (tasks'[job_id].raised \/ tasks'[job_id].result \notin {<< >>, <<0>>})]_vars
    /\ \A job_id \in 1..MaxJobs :
          (job_id \in DOMAIN tasks /\ tasks[job_id].pc = "running")
             ~> (job_id \in DOMAIN jobs /\ jobs[job_id].status \in Terminal)
    /\ [](DOMAIN tasks = DOMAIN jobs)
    /\ [](\A job_id \in DOMAIN jobs :
            /\ tasks[job_id].pc = "pending" <=> jobs[job_id].status = "queued"
            /\ tasks[job_id].pc = "running" <=> jobs[job_id].status = "processing"
            /\ tasks[job_id].pc = "done" <=> jobs[job_id].status \in Terminal
            /\ jobs[job_id].status = "completed" <=>
                  (tasks[job_id].pc = "done" /\ tasks[job_id].result = <<0>>))

\* one job completed on return code 0, one failed on return code 2, one
\* failed on an exception
C30_Witness ==
    /\ DOMAIN jobs = {1, 2, 3}
    /\ jobs[1].status = "completed" /\ tasks[1].result = <<0>>
    /\ jobs[2].status = "failed" /\ tasks[2].result = <<2>>
    /\ jobs[3].status = "failed" /\ tasks[3].raised
====
